---- MODULE Spec2Model ----
(***************************************************************************)
(* Model of the threaded key-value server (src/server.c): the accept loop  *)
(* of main, one handle_client thread per accepted connection, the uthash   *)
(* table kv_store and the mutex kv_mutex that guards it.                   *)
(*                                                                         *)
(* Strings are run-length encoded: a string is a sequence of runs          *)
(* [c, n] (n >= 1 copies of character c) in which adjacent runs carry      *)
(* different characters, so equal strings have equal encodings and the     *)
(* buffer sizes of the source (31, 255, 1023) are kept as they are.        *)
(***************************************************************************)
EXTENDS Integers, Sequences, FiniteSets, TLC

\* ------------------------------------------------------------------ bounds
MaxConns == 2          \* connections that are open at the same time
SeqConns == 1          \* the same, in the runs that send the codec's requests

\* ------------------------------------------------------- program constants
BUFFER_SIZE == 1024    \* #define BUFFER_SIZE
CMD_WIDTH == 31        \* %31s
KEY_WIDTH == 255       \* %255s, sizeof(entry->key) - 1
VALUE_WIDTH == 255     \* %255s, sizeof(entry->value) - 1
EOF_RET == -1          \* sscanf's EOF
NULL == 0

\* ----------------------------------------------------------------- strings
Run(c, n) == [c |-> c, n |-> n]
Rep(c, n) == <<Run(c, n)>>
Lit(cs) == [i \in 1..Len(cs) |-> Run(cs[i], 1)]

RECURSIVE strlen(_)
strlen(s) == IF s = <<>> THEN 0 ELSE s[1].n + strlen(Tail(s))

\* the first k bytes of s
RECURSIVE Take(_, _)
Take(s, k) ==
    IF k <= 0 \/ s = <<>> THEN <<>>
    ELSE IF s[1].n <= k THEN <<s[1]>> \o Take(Tail(s), k - s[1].n)
    ELSE <<Run(s[1].c, k)>>

\* s without its first k bytes
RECURSIVE Drop(_, _)
Drop(s, k) ==
    IF k <= 0 \/ s = <<>> THEN s
    ELSE IF s[1].n <= k THEN Drop(Tail(s), k - s[1].n)
    ELSE <<Run(s[1].c, s[1].n - k)>> \o Tail(s)

SET_STR == Lit(<<"S", "E", "T">>)
GET_STR == Lit(<<"G", "E", "T">>)
DELETE_STR == Lit(<<"D", "E", "L", "E", "T", "E">>)
OK_STR == Lit(<<"O", "K">>)
NOT_FOUND_STR == Lit(<<"N", "O", "T", "_", "F", "O", "U", "N", "D">>)
ERROR_STR == <<Run("E", 1), Run("R", 2), Run("O", 1), Run("R", 1)>>

\* strncpy(dst, src, n); dst[n] = '\0'
strncpy(src, n) == Take(src, n)

\* --------------------------------------------------------- request parsing
\* A request line is the sequence of its whitespace-separated tokens; the
\* client joins them with single spaces (src/client.c).
\* read(client_fd, buffer, BUFFER_SIZE - 1): the first k bytes of the line
RECURSIVE ReadBuffer(_, _)
ReadBuffer(line, k) ==
    IF k <= 0 \/ line = <<>> THEN <<>>
    ELSE IF strlen(Head(line)) >= k THEN <<Take(Head(line), k)>>
    ELSE <<Head(line)>> \o ReadBuffer(Tail(line), k - strlen(Head(line)) - 1)

\* one %<w>s conversion: skips whitespace, then takes at most w bytes of the
\* token at the front of the input and leaves the rest of it in the input
ScanS(input, w) ==
    IF input = <<>> THEN [ok |-> FALSE, tok |-> <<>>, rest |-> <<>>]
    ELSE [ok |-> TRUE,
          tok |-> Take(Head(input), w),
          rest |-> IF strlen(Head(input)) > w
                   THEN <<Drop(Head(input), w)>> \o Tail(input)
                   ELSE Tail(input)]

\* what an array the thread never assigned holds
UNINIT == Rep("?", 1)

\* sscanf(buffer, "%31s %255s %255s", cmd, key, value); g is what cmd holds
\* when no conversion assigns it
sscanf(buffer, g) ==
    LET s1 == ScanS(buffer, CMD_WIDTH)
        s2 == ScanS(s1.rest, KEY_WIDTH)
        s3 == ScanS(s2.rest, VALUE_WIDTH)
    IN  IF ~s1.ok THEN [parsed |-> EOF_RET, cmd |-> g, key |-> UNINIT, value |-> UNINIT]
        ELSE IF ~s2.ok THEN [parsed |-> 1, cmd |-> s1.tok, key |-> UNINIT, value |-> UNINIT]
        ELSE IF ~s3.ok THEN [parsed |-> 2, cmd |-> s1.tok, key |-> s2.tok, value |-> UNINIT]
        ELSE [parsed |-> 3, cmd |-> s1.tok, key |-> s2.tok, value |-> s3.tok]

\* ------------------------------------------------------------------ inputs
\* tokens the clients send
PING_STR == Lit(<<"P", "I", "N", "G">>)
LongCmd == SET_STR \o Rep("X", CMD_WIDTH)
KeyA == Rep("a", 1)
KeyB == Rep("b", KEY_WIDTH)
LongKey == Rep("b", KEY_WIDTH + 1)
ValX == Rep("x", 1)
ValY == Rep("y", VALUE_WIDTH)
LongVal == Rep("x", VALUE_WIDTH + 1)
HugeVal == Rep("y", BUFFER_SIZE)

\* the request lines the clients of one run choose from, and how many
\* connections they keep open at the same time
SameKeyRequests ==
    {<<SET_STR, KeyB, ValX>>, <<SET_STR, KeyB, ValY>>, <<GET_STR, KeyB>>, <<DELETE_STR, KeyB>>}
TwoKeyRequests ==
    {<<SET_STR, KeyA, ValX>>, <<SET_STR, KeyB, ValY>>, <<GET_STR, KeyB>>}
EmptyRequests ==
    {<<>>, <<PING_STR>>, <<SET_STR>>, <<GET_STR>>, <<DELETE_STR>>,
     <<SET_STR, KeyA, ValX>>, <<GET_STR, KeyA>>}
ShortRequests ==
    {<<SET_STR, KeyA>>, <<SET_STR, LongKey>>, <<PING_STR, KeyA, ValX>>, <<LongCmd, KeyA, ValX>>,
     <<GET_STR, KeyA, ValX>>, <<SET_STR, KeyA, ValX>>, <<GET_STR, KeyB>>, <<DELETE_STR, KeyA>>}
LongRequests ==
    {<<SET_STR, LongKey, ValX>>, <<SET_STR, KeyB, ValY>>, <<SET_STR, KeyA, LongVal>>,
     <<SET_STR, KeyB, HugeVal>>, <<SET_STR, LongKey, LongVal>>, <<GET_STR, KeyA>>,
     <<GET_STR, KeyB>>, <<GET_STR, LongKey>>, <<DELETE_STR, LongKey>>}
Scenarios == {[requests |-> SameKeyRequests, slots |-> MaxConns]}
KeyScenarios == {[requests |-> TwoKeyRequests, slots |-> MaxConns]}
CodecScenarios ==
    {[requests |-> EmptyRequests, slots |-> SeqConns],
     [requests |-> ShortRequests, slots |-> SeqConns],
     [requests |-> LongRequests, slots |-> SeqConns]}

\* what the stack slot of cmd may hold from an earlier call
Garbage == {SET_STR, GET_STR, DELETE_STR, UNINIT}

\* descriptors of client connections; the kernel reuses a closed one
MaxOf(a, b) == IF a >= b THEN a ELSE b
Conns == 1..MaxOf(MaxConns, SeqConns)

\* ------------------------------------------------------------------- state
VARIABLES
    mainpc,      \* main: "accept" (blocked in accept) or "create" (accepted)
    client_fd,   \* main's local client_fd
    fdptr,       \* fdptr[c]: the int malloc'ed for the connection on c
    frees,       \* frees[c]: free() calls on that int
    connst,      \* connst[c]: "none", "open" or "closed"
    cline,       \* cline[c]: the request line the client sent on the open connection
    reads,       \* reads[c]: read() calls on the connection
    writes,      \* writes[c]: write() calls on the connection
    sent,        \* sent[c]: the responses written to the open connection
    closes,      \* closes[c]: close() calls on the connection
    pc,          \* pc[t]: position of the handle_client thread of c = t
    fd,          \* fd[t]: the thread's local client_fd
    sc,          \* sc[t]: parsed, cmd, key, value after sscanf
    entry,       \* entry[t]: the thread's local entry pointer
    response,    \* response[t]: the thread's response buffer
    kv_store,    \* the hash table: a set of records [addr, key, value]
    kv_mutex,    \* 0, or the thread that holds the mutex
    env,         \* the run's scenario: the clients' request lines and open connections
    \* history variables: they record what happened and no action reads them
    lastMut,     \* per key, the last SET or DELETE executed on it: the key, "set" or
                 \* "delete", the request line, and what was executed on the key before
    refMap       \* the reference map: a set of [key, value] with unique keys

mainvars == <<mainpc, client_fd>>
connvars == <<connst, cline, reads, writes, sent, closes>>
heapvars == <<fdptr, frees>>
thrvars == <<pc, fd, sc, entry, response>>
storevars == <<kv_store, kv_mutex>>
histvars == <<lastMut, refMap>>
vars == <<mainvars, connvars, heapvars, thrvars, storevars, env, histvars>>

NoMut == [key |-> <<>>, cmd |-> "none", line |-> <<>>, prev |-> "none"]
NoScan == [parsed |-> 0, cmd |-> UNINIT, key |-> UNINIT, value |-> UNINIT]

InitWith(scenarios) ==
    /\ mainpc = "accept"
    /\ client_fd = 0
    /\ fdptr = [c \in Conns |-> 0]
    /\ frees = [c \in Conns |-> 0]
    /\ connst = [c \in Conns |-> "none"]
    /\ cline = [c \in Conns |-> <<>>]
    /\ reads = [c \in Conns |-> 0]
    /\ writes = [c \in Conns |-> 0]
    /\ sent = [c \in Conns |-> <<>>]
    /\ closes = [c \in Conns |-> 0]
    /\ pc = [t \in Conns |-> "idle"]
    /\ fd = [t \in Conns |-> 0]
    /\ sc = [t \in Conns |-> NoScan]
    /\ entry = [t \in Conns |-> NULL]
    /\ response = [t \in Conns |-> UNINIT]
    /\ kv_store = {}
    /\ kv_mutex = 0
    /\ env \in scenarios
    /\ lastMut = {}
    /\ refMap = {}

Init == InitWith(Scenarios)
InitKeys == InitWith(KeyScenarios)
InitCodec == InitWith(CodecScenarios)

\* --------------------------------------------------------------- hash table
\* a lookup that never finds a record
HASH_FIND_STR_Miss(head, k) == NULL

\* a lookup that does not compare the key
HASH_FIND_STR_AnyKey(head, k) ==
    IF head # {}
    THEN (CHOOSE e \in head : \A f \in head : e.addr <= f.addr).addr
    ELSE NULL

\* HASH_FIND_STR(kv_store, key, entry): the address of a record with that
\* key, or NULL
HASH_FIND_STR(head, k) ==
    IF \E e \in head : e.key = k
    THEN (CHOOSE e \in head : e.key = k /\ \A f \in head : f.key = k => e.addr <= f.addr).addr
    ELSE NULL

\* malloc(sizeof(kv_entry_t)): an address no live record has
malloc(head) ==
    CHOOSE a \in 1..(Cardinality(head) + 1) :
        /\ \A e \in head : e.addr # a
        /\ \A b \in 1..(Cardinality(head) + 1) : (\A e \in head : e.addr # b) => a <= b

\* HASH_ADD_STR(kv_store, key, entry), entry filled by the two strncpy calls
HASH_ADD_STR(head, a, k, v) ==
    head \cup {[addr |-> a, key |-> strncpy(k, KEY_WIDTH), value |-> strncpy(v, VALUE_WIDTH)]}

\* an update that leaves the old value in place
SetValue_Stale(head, a, v) == head

\* strncpy(entry->value, value, sizeof(entry->value) - 1) on the record at a
SetValue(head, a, v) ==
    {IF e.addr = a THEN [e EXCEPT !.value = strncpy(v, VALUE_WIDTH)] ELSE e : e \in head}

\* a removal that leaves the record in the table
HASH_DEL_Keep(head, a) == head

\* HASH_DEL(kv_store, entry); free(entry)
HASH_DEL(head, a) == {e \in head : e.addr # a}

\* entry->value
ValueAt(head, a) ==
    IF \E e \in head : e.addr = a THEN (CHOOSE e \in head : e.addr = a).value ELSE UNINIT

\* ---------------------------------------------------------- reference map
\* insert-or-update, lookup and remove-if-present on a set of [key, value]
RefSet(m, k, v) == {r \in m : r.key # k} \cup {[key |-> k, value |-> v]}
RefDelete(m, k) == {r \in m : r.key # k}
RefGet(m, k) ==
    IF \E r \in m : r.key = k THEN (CHOOSE r \in m : r.key = k).value ELSE NOT_FOUND_STR

\* the last SET or DELETE executed on key k
LastMutOf(k) ==
    IF \E r \in lastMut : r.key = k THEN CHOOSE r \in lastMut : r.key = k ELSE NoMut
\* lastMut after thread t executes c ("set" or "delete") on its key
Record(t, c) ==
    {r \in lastMut : r.key # sc[t].key}
    \cup {[key |-> sc[t].key, cmd |-> c, line |-> cline[fd[t]],
           prev |-> LastMutOf(sc[t].key).cmd]}

\* -------------------------------------------------------------------- main
\* the descriptor accept() returns: the lowest one that is not open
FreeFd == CHOOSE c \in Conns : connst[c] # "open" /\ \A d \in Conns : connst[d] # "open" => c <= d

\* accept() returns a new connection
MainAcceptOk ==
    /\ mainpc = "accept"
    /\ \E c \in 1..env.slots : connst[c] # "open"
    /\ client_fd' = FreeFd
    /\ connst' = [connst EXCEPT ![FreeFd] = "open"]
    /\ cline' = [cline EXCEPT ![FreeFd] = <<>>]
    /\ reads' = [reads EXCEPT ![FreeFd] = 0]
    /\ writes' = [writes EXCEPT ![FreeFd] = 0]
    /\ sent' = [sent EXCEPT ![FreeFd] = <<>>]
    /\ closes' = [closes EXCEPT ![FreeFd] = 0]
    /\ frees' = [frees EXCEPT ![FreeFd] = 0]
    /\ fdptr' = [fdptr EXCEPT ![FreeFd] = 0]
    /\ mainpc' = "create"
    /\ UNCHANGED <<env, thrvars, storevars, histvars>>

\* accept() fails: perror, continue
MainAcceptFail ==
    /\ mainpc = "accept"
    /\ client_fd' = -1
    /\ mainpc' = "accept"
    /\ UNCHANGED <<env, connvars, heapvars, thrvars, storevars, histvars>>

\* malloc of the descriptor copy, pthread_create succeeds, pthread_detach
MainCreateOk ==
    /\ mainpc = "create"
    /\ fdptr' = [fdptr EXCEPT ![client_fd] = client_fd]
    /\ pc' = [pc EXCEPT ![client_fd] = "start"]
    /\ mainpc' = "accept"
    /\ UNCHANGED <<env, client_fd, frees, connvars, fd, sc, entry, response, storevars, histvars>>

\* a creation failure that ends the loop
MainCreateFail_Exit ==
    /\ mainpc = "create"
    /\ fdptr' = [fdptr EXCEPT ![client_fd] = client_fd]
    /\ connst' = [connst EXCEPT ![client_fd] = "closed"]
    /\ closes' = [closes EXCEPT ![client_fd] = @ + 1]
    /\ frees' = [frees EXCEPT ![client_fd] = @ + 1]
    /\ mainpc' = "exit"
    /\ UNCHANGED <<env, client_fd, cline, reads, writes, sent, thrvars, storevars, histvars>>

\* malloc of the descriptor copy, pthread_create fails: perror,
\* close(client_fd), free(client_fd_ptr), continue
MainCreateFail ==
    /\ mainpc = "create"
    /\ fdptr' = [fdptr EXCEPT ![client_fd] = client_fd]
    /\ connst' = [connst EXCEPT ![client_fd] = "closed"]
    /\ closes' = [closes EXCEPT ![client_fd] = @ + 1]
    /\ frees' = [frees EXCEPT ![client_fd] = @ + 1]
    /\ mainpc' = "accept"
    /\ UNCHANGED <<env, client_fd, cline, reads, writes, sent, thrvars, storevars, histvars>>

\* ----------------------------------------------------------- handle_client
\* a handler that is passed &client_fd and reads main's variable
HcStart_SharedVar(t) ==
    /\ pc[t] = "start"
    /\ fd' = [fd EXCEPT ![t] = client_fd]
    /\ pc' = [pc EXCEPT ![t] = "read"]
    /\ UNCHANGED <<env, mainvars, connvars, heapvars, sc, entry, response, storevars, histvars>>

\* a handler that takes the mutex before it reads its request
HcStart_LockFirst(t) ==
    /\ pc[t] = "start"
    /\ kv_mutex = 0
    /\ kv_mutex' = t
    /\ fd' = [fd EXCEPT ![t] = fdptr[t]]
    /\ pc' = [pc EXCEPT ![t] = "read"]
    /\ UNCHANGED <<env, mainvars, connvars, heapvars, sc, entry, response, kv_store, histvars>>

\* int client_fd = *(int*)arg
HcStart(t) ==
    /\ pc[t] = "start"
    /\ fd' = [fd EXCEPT ![t] = fdptr[t]]
    /\ pc' = [pc EXCEPT ![t] = "read"]
    /\ UNCHANGED <<env, mainvars, connvars, heapvars, sc, entry, response, storevars, histvars>>

\* return NULL: the thread ends and its locals with it
Return(t) ==
    /\ pc' = [pc EXCEPT ![t] = "idle"]
    /\ fd' = [fd EXCEPT ![t] = 0]
    /\ sc' = [sc EXCEPT ![t] = NoScan]
    /\ entry' = [entry EXCEPT ![t] = NULL]
    /\ response' = [response EXCEPT ![t] = UNINIT]

\* a failed read whose branch does not return
HcReadFail_FallThrough(t) ==
    /\ pc[t] = "read"
    /\ reads' = [reads EXCEPT ![fd[t]] = @ + 1]
    /\ connst' = [connst EXCEPT ![fd[t]] = "closed"]
    /\ closes' = [closes EXCEPT ![fd[t]] = @ + 1]
    /\ frees' = [frees EXCEPT ![t] = @ + 1]
    /\ pc' = [pc EXCEPT ![t] = "lock"]
    /\ UNCHANGED <<env, mainvars, cline, writes, sent, fdptr, storevars, histvars>>
    /\ UNCHANGED <<fd, sc, entry, response>>

\* read() returns 0 or fails: close(client_fd), free(arg), return
HcReadFail(t) ==
    /\ pc[t] = "read"
    /\ reads' = [reads EXCEPT ![fd[t]] = @ + 1]
    /\ connst' = [connst EXCEPT ![fd[t]] = "closed"]
    /\ closes' = [closes EXCEPT ![fd[t]] = @ + 1]
    /\ frees' = [frees EXCEPT ![t] = @ + 1]
    /\ Return(t)
    /\ UNCHANGED <<env, mainvars, cline, writes, sent, fdptr, storevars, histvars>>

\* read() returns the request's bytes; buffer[bytes_read] = '\0'; sscanf
HcRead(t) ==
    /\ pc[t] = "read"
    /\ \E line \in env.requests :
         \E g \in (IF line = <<>> THEN Garbage ELSE {UNINIT}) :
            /\ cline' = [cline EXCEPT ![fd[t]] = line]
            /\ sc' = [sc EXCEPT ![t] = sscanf(ReadBuffer(line, BUFFER_SIZE - 1), g)]
    /\ reads' = [reads EXCEPT ![fd[t]] = @ + 1]
    /\ pc' = [pc EXCEPT ![t] = "lock"]
    /\ UNCHANGED <<env, mainvars, connst, writes, sent, closes, heapvars, fd, entry, response, storevars>>
    /\ UNCHANGED histvars

\* a trylock whose result is ignored
HcLock_TryOnce(t) ==
    /\ pc[t] = "lock"
    /\ kv_mutex' = IF kv_mutex = 0 THEN t ELSE kv_mutex
    /\ pc' = [pc EXCEPT ![t] = "dispatch"]
    /\ UNCHANGED <<env, mainvars, connvars, heapvars, fd, sc, entry, response, kv_store, histvars>>

\* a lock that does not wait for its holder
HcLock_NoWait(t) ==
    /\ pc[t] = "lock"
    /\ kv_mutex' = t
    /\ pc' = [pc EXCEPT ![t] = "dispatch"]
    /\ UNCHANGED <<env, mainvars, connvars, heapvars, fd, sc, entry, response, kv_store, histvars>>

\* pthread_mutex_lock(&kv_mutex)
HcLock(t) ==
    /\ pc[t] = "lock"
    /\ kv_mutex = 0
    /\ kv_mutex' = t
    /\ pc' = [pc EXCEPT ![t] = "dispatch"]
    /\ UNCHANGED <<env, mainvars, connvars, heapvars, fd, sc, entry, response, kv_store, histvars>>

\* the branch the if / else if chain takes
Branch(s) ==
    IF s.cmd = SET_STR /\ s.parsed >= 3 THEN "set"
    ELSE IF s.cmd = GET_STR /\ s.parsed >= 2 THEN "get"
    ELSE IF s.cmd = DELETE_STR /\ s.parsed >= 2 THEN "delete"
    ELSE "error"

\* the branch condition and, in the three command branches, HASH_FIND_STR;
\* the else branch is strcpy(response, "ERROR")
HcDispatch(t) ==
    /\ pc[t] = "dispatch"
    /\ IF Branch(sc[t]) = "error"
       THEN /\ response' = [response EXCEPT ![t] = ERROR_STR]
            /\ pc' = [pc EXCEPT ![t] = "unlock"]
            /\ UNCHANGED entry
       ELSE /\ entry' = [entry EXCEPT ![t] = HASH_FIND_STR(kv_store, sc[t].key)]
            /\ pc' = [pc EXCEPT ![t] = Branch(sc[t])]
            /\ UNCHANGED response
    /\ UNCHANGED <<env, mainvars, connvars, heapvars, fd, sc, storevars, histvars>>

\* a SET that answers OK and leaves the table as it was
HcSet_Deferred(t) ==
    /\ pc[t] = "set"
    /\ response' = [response EXCEPT ![t] = OK_STR]
    /\ pc' = [pc EXCEPT ![t] = "unlock"]
    /\ lastMut' = Record(t, "set")
    /\ refMap' = RefSet(refMap, sc[t].key, sc[t].value)
    /\ UNCHANGED <<env, mainvars, connvars, heapvars, fd, sc, entry, storevars>>

\* a SET whose update branch returns to the write without unlocking
HcSet_UpdateReturns(t) ==
    /\ pc[t] = "set"
    /\ IF entry[t] # NULL
       THEN /\ kv_store' = SetValue(kv_store, entry[t], sc[t].value)
            /\ pc' = [pc EXCEPT ![t] = "write"]
            /\ UNCHANGED entry
       ELSE /\ kv_store' = HASH_ADD_STR(kv_store, malloc(kv_store), sc[t].key, sc[t].value)
            /\ pc' = [pc EXCEPT ![t] = "unlock"]
            /\ entry' = [entry EXCEPT ![t] = malloc(kv_store)]
    /\ response' = [response EXCEPT ![t] = OK_STR]
    /\ lastMut' = Record(t, "set")
    /\ refMap' = RefSet(refMap, sc[t].key, sc[t].value)
    /\ UNCHANGED <<env, mainvars, connvars, heapvars, fd, sc, kv_mutex>>

\* a SET that adds a record whether or not it found one
HcSet_AlwaysAdd(t) ==
    /\ pc[t] = "set"
    /\ kv_store' = HASH_ADD_STR(kv_store, malloc(kv_store), sc[t].key, sc[t].value)
    /\ entry' = [entry EXCEPT ![t] = malloc(kv_store)]
    /\ response' = [response EXCEPT ![t] = OK_STR]
    /\ pc' = [pc EXCEPT ![t] = "unlock"]
    /\ lastMut' = Record(t, "set")
    /\ refMap' = RefSet(refMap, sc[t].key, sc[t].value)
    /\ UNCHANGED <<env, mainvars, connvars, heapvars, fd, sc, kv_mutex>>

\* SET: update the record found, or allocate and add a new one; "OK"
HcSet(t) ==
    /\ pc[t] = "set"
    /\ IF entry[t] # NULL
       THEN /\ kv_store' = SetValue(kv_store, entry[t], sc[t].value)
            /\ UNCHANGED entry
       ELSE /\ kv_store' = HASH_ADD_STR(kv_store, malloc(kv_store), sc[t].key, sc[t].value)
            /\ entry' = [entry EXCEPT ![t] = malloc(kv_store)]
    /\ response' = [response EXCEPT ![t] = OK_STR]
    /\ pc' = [pc EXCEPT ![t] = "unlock"]
    /\ lastMut' = Record(t, "set")
    /\ refMap' = RefSet(refMap, sc[t].key, sc[t].value)
    /\ UNCHANGED <<env, mainvars, connvars, heapvars, fd, sc, kv_mutex>>

\* a GET that takes the record it found out of the table
HcGet_Consume(t) ==
    /\ pc[t] = "get"
    /\ response' = [response EXCEPT ![t] =
                      IF entry[t] # NULL
                      THEN strncpy(ValueAt(kv_store, entry[t]), BUFFER_SIZE - 1)
                      ELSE NOT_FOUND_STR]
    /\ kv_store' = IF entry[t] # NULL THEN HASH_DEL(kv_store, entry[t]) ELSE kv_store
    /\ pc' = [pc EXCEPT ![t] = "unlock"]
    /\ UNCHANGED <<env, mainvars, connvars, heapvars, fd, sc, entry, kv_mutex, histvars>>

\* GET: the value of the record found, or "NOT_FOUND"
HcGet(t) ==
    /\ pc[t] = "get"
    /\ response' = [response EXCEPT ![t] =
                      IF entry[t] # NULL
                      THEN strncpy(ValueAt(kv_store, entry[t]), BUFFER_SIZE - 1)
                      ELSE NOT_FOUND_STR]
    /\ pc' = [pc EXCEPT ![t] = "unlock"]
    /\ UNCHANGED <<env, mainvars, connvars, heapvars, fd, sc, entry, storevars, histvars>>

\* a DELETE that reports a missing key
HcDelete_MissNotFound(t) ==
    /\ pc[t] = "delete"
    /\ kv_store' = IF entry[t] # NULL THEN HASH_DEL(kv_store, entry[t]) ELSE kv_store
    /\ response' = [response EXCEPT ![t] = IF entry[t] # NULL THEN OK_STR ELSE NOT_FOUND_STR]
    /\ pc' = [pc EXCEPT ![t] = "unlock"]
    /\ lastMut' = Record(t, "delete")
    /\ refMap' = RefDelete(refMap, sc[t].key)
    /\ UNCHANGED <<env, mainvars, connvars, heapvars, fd, sc, entry, kv_mutex>>

\* DELETE: remove and free the record found; "OK" either way
HcDelete(t) ==
    /\ pc[t] = "delete"
    /\ kv_store' = IF entry[t] # NULL THEN HASH_DEL(kv_store, entry[t]) ELSE kv_store
    /\ response' = [response EXCEPT ![t] = OK_STR]
    /\ pc' = [pc EXCEPT ![t] = "unlock"]
    /\ lastMut' = Record(t, "delete")
    /\ refMap' = RefDelete(refMap, sc[t].key)
    /\ UNCHANGED <<env, mainvars, connvars, heapvars, fd, sc, entry, kv_mutex>>

\* a handler that goes on to write without unlocking
HcUnlock_Skip(t) ==
    /\ pc[t] = "unlock"
    /\ pc' = [pc EXCEPT ![t] = "write"]
    /\ UNCHANGED <<env, mainvars, connvars, heapvars, fd, sc, entry, response, storevars, histvars>>

\* pthread_mutex_unlock(&kv_mutex)
HcUnlock(t) ==
    /\ pc[t] = "unlock"
    /\ kv_mutex' = 0
    /\ pc' = [pc EXCEPT ![t] = "write"]
    /\ UNCHANGED <<env, mainvars, connvars, heapvars, fd, sc, entry, response, kv_store, histvars>>

\* write(client_fd, response, strlen(response))
HcWrite(t) ==
    /\ pc[t] = "write"
    /\ sent' = [sent EXCEPT ![fd[t]] = Append(@, response[t])]
    /\ writes' = [writes EXCEPT ![fd[t]] = @ + 1]
    /\ pc' = [pc EXCEPT ![t] = "close"]
    /\ UNCHANGED <<env, mainvars, connst, cline, reads, closes, heapvars, fd, sc, entry, response, storevars>>
    /\ UNCHANGED histvars

\* close(client_fd); free(arg); return NULL
HcClose(t) ==
    /\ pc[t] = "close"
    /\ connst' = [connst EXCEPT ![fd[t]] = "closed"]
    /\ closes' = [closes EXCEPT ![fd[t]] = @ + 1]
    /\ frees' = [frees EXCEPT ![t] = @ + 1]
    /\ cline' = [cline EXCEPT ![fd[t]] = <<>>]
    /\ sent' = [sent EXCEPT ![fd[t]] = <<>>]
    /\ Return(t)
    /\ UNCHANGED <<env, mainvars, reads, writes, fdptr, storevars, histvars>>

Next ==
    \/ MainAcceptOk
    \/ MainAcceptFail
    \/ MainCreateOk
    \/ MainCreateFail
    \/ \E t \in Conns : HcStart(t)
    \/ \E t \in Conns : HcReadFail(t)
    \/ \E t \in Conns : HcRead(t)
    \/ \E t \in Conns : HcLock(t)
    \/ \E t \in Conns : HcDispatch(t)
    \/ \E t \in Conns : HcSet(t)
    \/ \E t \in Conns : HcGet(t)
    \/ \E t \in Conns : HcDelete(t)
    \/ \E t \in Conns : HcUnlock(t)
    \/ \E t \in Conns : HcWrite(t)
    \/ \E t \in Conns : HcClose(t)

Spec == Init /\ [][Next]_vars

\* the same program, its clients sending SET and GET requests on two keys:
\* the steps of Next that such a run can take
NextKeys ==
    \/ MainAcceptOk
    \/ MainAcceptFail
    \/ MainCreateOk
    \/ MainCreateFail
    \/ \E t \in Conns : HcStart(t)
    \/ \E t \in Conns : HcReadFail(t)
    \/ \E t \in Conns : HcRead(t)
    \/ \E t \in Conns : HcLock(t)
    \/ \E t \in Conns : HcDispatch(t)
    \/ \E t \in Conns : HcSet(t)
    \/ \E t \in Conns : HcGet(t)
    \/ \E t \in Conns : HcUnlock(t)
    \/ \E t \in Conns : HcWrite(t)
    \/ \E t \in Conns : HcClose(t)

SpecKeys == InitKeys /\ [][NextKeys]_vars

\* the same program, its clients sending malformed and over-length requests
SpecCodec == InitCodec /\ [][Next]_vars

\* ------------------------------------------------------ allocation failure
\* A write through a null pointer is undefined behaviour; on the platforms the
\* server builds for, page 0 is not mapped and the write raises SIGSEGV, which
\* the server does not handle: the process ends, its threads with it, and the
\* kernel closes its descriptors. who is the thread that faulted (0: main).
Kill(who) ==
    /\ mainpc' = IF who = 0 THEN "fault" ELSE "gone"
    /\ pc' = [t \in Conns |-> IF t = who THEN "fault" ELSE "gone"]
    /\ connst' = [c \in Conns |-> IF connst[c] = "open" THEN "closed" ELSE connst[c]]
    /\ UNCHANGED <<env, client_fd, cline, reads, writes, sent, closes, heapvars>>
    /\ UNCHANGED <<fd, sc, entry, response, storevars, histvars>>

\* SET of an absent key, malloc returns NULL: strncpy(entry->key, ...) writes
\* through the null pointer while the thread holds the mutex
HcSetNoMem(t) ==
    /\ pc[t] = "set"
    /\ entry[t] = NULL
    /\ Kill(t)

\* main's malloc of the descriptor copy returns NULL: *client_fd_ptr = client_fd
\* writes through the null pointer
MainCreateNoMem ==
    /\ mainpc = "create"
    /\ Kill(0)

\* the steps of the program when an allocation may fail
NextOOM ==
    \/ Next
    \/ \E t \in Conns : HcSetNoMem(t)
    \/ MainCreateNoMem

SpecOOM == Init /\ [][NextOOM]_vars

\* ---------------------------------------------------------------- fairness
\* The scheduler runs every thread that can take a step, and the mutex is
\* fair: a thread that waits for it gets it. Nothing is assumed of the
\* clients: a read may wait forever, and so may accept.
Fairness ==
    \A t \in Conns :
        /\ SF_vars(HcLock(t))
        /\ WF_vars(HcStart(t) \/ HcDispatch(t) \/ HcSet(t) \/ HcGet(t) \/ HcUnlock(t)
                      \/ HcWrite(t) \/ HcClose(t))

\* the clients send SET and GET requests on one key
FairRequests == {<<SET_STR, KeyB, ValX>>, <<GET_STR, KeyB>>}
InitFair == InitWith({[requests |-> FairRequests, slots |-> MaxConns]})
SpecFair == InitFair /\ [][NextKeys]_vars /\ Fairness

\* ------------------------------------------------------- one client at a time
\* A shell runs the client once per command of a script, each run after the
\* one before it has ended (README: ./client SET name Hong, ./client GET name,
\* ./client DELETE name). env.script is what is left of the script, env.conn
\* the server's descriptor of the running client's connection.
NAME_STR == Lit(<<"n", "a", "m", "e">>)
HONG_STR == Lit(<<"H", "o", "n", "g">>)
NameScript ==
    <<<<SET_STR, NAME_STR, HONG_STR>>, <<GET_STR, NAME_STR>>, <<DELETE_STR, NAME_STR>>,
      <<GET_STR, NAME_STR>>, <<DELETE_STR, NAME_STR>>>>

\* the connections that are open and have not been read from
Fresh == {c \in Conns : connst[c] = "open" /\ reads[c] = 0}

\* the client's connect() has returned and it writes its request line: from
\* now on the line is there for the handler of its connection to read
ClientConnected ==
    /\ env.phase = "connect"
    /\ Cardinality(Fresh) = 1
    /\ env' = [env EXCEPT !.requests = {Head(env.script)},
                          !.slots = 0,
                          !.conn = CHOOSE c \in Fresh : TRUE,
                          !.phase = "wait"]
    /\ UNCHANGED <<mainvars, connvars, heapvars, thrvars, storevars, histvars>>

\* the client's read() returns the response written to its connection; it
\* prints it and exits, and the shell starts the client of the next command
ClientNext ==
    /\ env.phase = "wait"
    /\ writes[env.conn] = 1
    /\ env' = [env EXCEPT !.script = Tail(env.script),
                          !.requests = {},
                          !.slots = IF Len(env.script) > 1 THEN MaxConns ELSE 0,
                          !.conn = 0,
                          !.phase = IF Len(env.script) > 1 THEN "connect" ELSE "done"]
    /\ UNCHANGED <<mainvars, connvars, heapvars, thrvars, storevars, histvars>>

InitShell ==
    InitWith({[requests |-> {}, slots |-> MaxConns, script |-> NameScript,
               conn |-> 0, phase |-> "connect"]})

NextShell ==
    \/ Next
    \/ ClientConnected
    \/ ClientNext

SpecShell == InitShell /\ [][NextShell]_vars

\* ------------------------------------------------- values that are responses
\* the clients store the words the server answers with
WordRequests ==
    {<<SET_STR, KeyA, NOT_FOUND_STR>>, <<SET_STR, KeyA, ERROR_STR>>,
     <<GET_STR, KeyA>>, <<DELETE_STR, KeyA>>}
InitWords == InitWith({[requests |-> WordRequests, slots |-> SeqConns]})
SpecWords == InitWords /\ [][Next]_vars

\* ------------------------------------------------------------- properties
\* steps of thread t, recognised by its position before and after
GetStep(t) == pc[t] = "get" /\ pc'[t] = "unlock"
SetStep(t) == pc[t] = "set" /\ pc'[t] = "unlock"
DeleteStep(t) == pc[t] = "delete" /\ pc'[t] = "unlock"
WriteStep(t) == pc[t] = "write" /\ pc'[t] = "close"
ReturnStep(t) == pc[t] # "idle" /\ pc'[t] = "idle"

\* thread t has left the command dispatch
Post(t) == pc[t] \in {"unlock", "write", "close"}
\* thread t has read its request
HasRead(t) == pc[t] \in {"lock", "dispatch", "set", "get", "delete", "unlock", "write", "close"}

\* a token of 1..255 bytes
ShortTok(s) == strlen(s) >= 1 /\ strlen(s) <= KEY_WIDTH
\* the request lines SET k v and GET k with tokens of 1..255 bytes
IsShortSet(line) ==
    Len(line) = 3 /\ line[1] = SET_STR /\ ShortTok(line[2]) /\ ShortTok(line[3])
IsShortGet(line) == Len(line) = 2 /\ line[1] = GET_STR /\ ShortTok(line[2])

\* no record of the table has key k
Absent(head, k) == \A e \in head : e.key # k
\* the records of the table with key k
RecordsOf(head, k) == {e \in head : e.key = k}
\* what a GET of key k answers on the table
GetOf(head, k) ==
    IF HASH_FIND_STR(head, k) = NULL THEN NOT_FOUND_STR
    ELSE strncpy(ValueAt(head, HASH_FIND_STR(head, k)), BUFFER_SIZE - 1)
\* the table as a set of [key, value]
AbstractMap(head) == {[key |-> e.key, value |-> e.value] : e \in head}

\* the response written is the one the dispatch computed
Answered(t) == WriteStep(t) => sent'[fd[t]] = <<response[t]>>

\* C1: a GET k executed when the last SET or DELETE executed on k is SET k v
\* (k and v tokens of 1..255 bytes) computes and writes exactly v.
C1_SetThenGet ==
    [][\A t \in Conns :
         /\ Answered(t)
         /\ (/\ GetStep(t)
             /\ IsShortGet(cline[fd[t]])
             /\ LastMutOf(sc[t].key).cmd = "set"
             /\ IsShortSet(LastMutOf(sc[t].key).line)
             /\ LastMutOf(sc[t].key).line[2] = cline[fd[t]][2])
            => response'[t] = LastMutOf(sc[t].key).line[3]]_vars

\* a GET a 255-byte key has been answered with the value of the SET before it
C1_Witness ==
    \E t \in Conns :
        /\ pc[t] = "close"
        /\ IsShortGet(cline[fd[t]])
        /\ strlen(cline[fd[t]][2]) = KEY_WIDTH
        /\ LastMutOf(sc[t].key).cmd = "set"
        /\ IsShortSet(LastMutOf(sc[t].key).line)
        /\ LastMutOf(sc[t].key).line[2] = cline[fd[t]][2]
        /\ sent[fd[t]] = <<LastMutOf(sc[t].key).line[3]>>

\* C2: the table always equals the reference map to which the executed
\* commands were applied one at a time, every response equals the reference
\* map's, and a record a handler found is still the table's record for its key
\* when the handler uses it.
C2_Linearizable ==
    /\ [](/\ AbstractMap(kv_store) = refMap
          /\ Cardinality(kv_store) = Cardinality(refMap)
          /\ \A t \in Conns :
                pc[t] \in {"set", "get", "delete"} => entry[t] = HASH_FIND_STR(kv_store, sc[t].key))
    /\ [][\A t \in Conns :
            /\ SetStep(t) => response'[t] = OK_STR
            /\ GetStep(t) => response'[t] = RefGet(refMap, sc[t].key)
            /\ DeleteStep(t) => response'[t] = OK_STR]_vars

\* one handler is between its lookup and its update of a key while another,
\* with a command on the same key, waits for the mutex
C2_Witness ==
    \E t, u \in Conns :
        /\ t # u
        /\ pc[t] \in {"set", "delete"}
        /\ entry[t] # NULL
        /\ pc[u] = "lock"
        /\ sc[u].key = sc[t].key

\* C3: every SET is answered OK, and every key whose last executed SET or
\* DELETE is SET k v (tokens of 1..255 bytes) holds v for a GET.
C3_DistinctKeys ==
    /\ \A t \in Conns : (Post(t) /\ Branch(sc[t]) = "set") => response[t] = OK_STR
    /\ \A r \in lastMut :
          (r.cmd = "set" /\ IsShortSet(r.line)) => GetOf(kv_store, r.line[2]) = r.line[3]

\* two handlers that were running at the same time have each executed a SET
\* on a key of its own, and the table holds both values
C3_Witness ==
    \E t, u \in Conns :
        /\ t # u
        /\ pc[t] \in {"write", "close"} /\ pc[u] \in {"write", "close"}
        /\ IsShortSet(cline[fd[t]]) /\ IsShortSet(cline[fd[u]])
        /\ cline[fd[t]][2] # cline[fd[u]][2]
        /\ response[t] = OK_STR /\ response[u] = OK_STR
        /\ GetOf(kv_store, cline[fd[t]][2]) = cline[fd[t]][3]
        /\ GetOf(kv_store, cline[fd[u]][2]) = cline[fd[u]][3]

\* C4: a SET k v2 executed when the last SET or DELETE executed on k is a SET
\* leaves exactly one record for k, holding v2, and a GET k executed after
\* it (no SET or DELETE on k in between) computes v2.
C4_LastWriteWins ==
    [][\A t \in Conns :
         /\ (SetStep(t) /\ LastMutOf(sc[t].key).cmd = "set")
            => /\ Cardinality(RecordsOf(kv_store', sc[t].key)) = 1
               /\ \A e \in RecordsOf(kv_store', sc[t].key) : e.value = sc[t].value
         /\ (/\ GetStep(t)
             /\ IsShortGet(cline[fd[t]])
             /\ LastMutOf(sc[t].key).cmd = "set"
             /\ LastMutOf(sc[t].key).prev = "set"
             /\ IsShortSet(LastMutOf(sc[t].key).line)
             /\ LastMutOf(sc[t].key).line[2] = cline[fd[t]][2])
            => response'[t] = LastMutOf(sc[t].key).line[3]]_vars

\* a GET has been answered with the value of the second of two SETs
C4_Witness ==
    \E t \in Conns :
        /\ pc[t] = "close"
        /\ IsShortGet(cline[fd[t]])
        /\ LastMutOf(sc[t].key).cmd = "set"
        /\ LastMutOf(sc[t].key).prev = "set"
        /\ sent[fd[t]] = <<LastMutOf(sc[t].key).line[3]>>
        /\ Cardinality(RecordsOf(kv_store, sc[t].key)) = 1

\* C5: a GET k executed when the last SET or DELETE executed on k is a
\* DELETE computes and writes NOT_FOUND.
C5_DeleteThenGet ==
    [][\A t \in Conns :
         /\ Answered(t)
         /\ (GetStep(t) /\ LastMutOf(sc[t].key).cmd = "delete")
            => response'[t] = NOT_FOUND_STR]_vars

\* a GET has been answered NOT_FOUND after the DELETE of a key that a SET
\* had stored
C5_Witness ==
    \E t \in Conns :
        /\ pc[t] = "close"
        /\ Branch(sc[t]) = "get"
        /\ LastMutOf(sc[t].key).cmd = "delete"
        /\ LastMutOf(sc[t].key).prev = "set"
        /\ sent[fd[t]] = <<NOT_FOUND_STR>>

\* C6: a DELETE k computes and writes OK, leaves the table unchanged when k
\* is absent, and leaves k absent.
C6_DeleteIdempotent ==
    [][\A t \in Conns :
         /\ (WriteStep(t) /\ Branch(sc[t]) = "delete") => sent'[fd[t]] = <<OK_STR>>
         /\ DeleteStep(t)
            => /\ response'[t] = OK_STR
               /\ Absent(kv_store, sc[t].key) => kv_store' = kv_store
               /\ Absent(kv_store', sc[t].key)]_vars

\* the second of two DELETEs of a key found no record and was answered OK
C6_Witness ==
    \E t \in Conns :
        /\ pc[t] = "close"
        /\ Branch(sc[t]) = "delete"
        /\ entry[t] = NULL
        /\ LastMutOf(sc[t].key).cmd = "delete"
        /\ LastMutOf(sc[t].key).prev = "delete"
        /\ sent[fd[t]] = <<OK_STR>>

\* a request line the protocol rejects: no command name, a command name
\* other than SET, GET and DELETE, or too few tokens for the command
Malformed(line) ==
    \/ Len(line) = 0
    \/ line[1] \notin {SET_STR, GET_STR, DELETE_STR}
    \/ line[1] = SET_STR /\ Len(line) < 3
    \/ line[1] \in {GET_STR, DELETE_STR} /\ Len(line) < 2

\* C7: a handler whose request line is malformed, whatever the lengths of
\* its tokens, executes no SET, GET or DELETE and computes ERROR.
C7_MalformedIsError ==
    \A t \in Conns :
        (HasRead(t) /\ Malformed(cline[fd[t]]))
        => /\ pc[t] \notin {"set", "get", "delete"}
           /\ Post(t) => response[t] = ERROR_STR

\* C8: after a SET whose key or value token is longer than 255 bytes, the
\* table associates the first 255 bytes of the key token with the first 255
\* bytes (or all) of the value token.
C8_TruncatedNotSplit ==
    \A r \in lastMut :
        (/\ r.cmd = "set"
         /\ Len(r.line) = 3
         /\ r.line[1] = SET_STR
         /\ strlen(r.line[2]) > KEY_WIDTH \/ strlen(r.line[3]) > VALUE_WIDTH)
        => GetOf(kv_store, Take(r.line[2], KEY_WIDTH)) = Take(r.line[3], VALUE_WIDTH)

\* C9: a connection is read at most once, written at most once and closed at
\* most once; its handler works on it only while it is open, writes one
\* response between its read and its close, and returns either after that
\* close or from a failed read, then without a response and without having
\* touched the mutex or the table; a closed connection was closed once.
C9_OneRequestPerConnection ==
    /\ [](/\ \A c \in Conns :
               /\ reads[c] <= 1 /\ writes[c] <= 1 /\ closes[c] <= 1
               /\ connst[c] = "closed" => closes[c] = 1
          /\ \A t \in Conns :
               /\ pc[t] = "read"
                  => /\ connst[fd[t]] = "open"
                     /\ reads[fd[t]] = 0 /\ writes[fd[t]] = 0 /\ closes[fd[t]] = 0
               /\ HasRead(t) => connst[fd[t]] = "open" /\ reads[fd[t]] = 1 /\ closes[fd[t]] = 0
               /\ (HasRead(t) /\ pc[t] # "close") => writes[fd[t]] = 0
               /\ pc[t] = "close" => writes[fd[t]] = 1)
    /\ [][\A t \in Conns :
            ReturnStep(t)
            => /\ connst'[fd[t]] = "closed"
               /\ closes'[fd[t]] = 1
               /\ reads'[fd[t]] = 1
               /\ \/ pc[t] = "close" /\ writes'[fd[t]] = 1
                  \/ /\ pc[t] = "read"
                     /\ writes'[fd[t]] = 0
                     /\ kv_mutex # t
                     /\ UNCHANGED <<kv_store, kv_mutex, refMap>>]_vars

\* one connection was closed after a failed read while the table held a
\* record, another after its response
C9_Witness ==
    \E c, d \in Conns :
        /\ connst[c] = "closed" /\ reads[c] = 1 /\ writes[c] = 0 /\ closes[c] = 1
        /\ connst[d] = "closed" /\ reads[d] = 1 /\ writes[d] = 1 /\ closes[d] = 1
        /\ kv_store # {}

\* C10: main is always in its accept loop; a failed accept leaves it
\* accepting, and a failed thread creation closes the accepted connection
\* once, with nothing read from it or written to it and the table and the
\* mutex untouched, and leaves main accepting.
C10_AcceptLoopContinues ==
    /\ [](mainpc \in {"accept", "create"})
    /\ [][/\ (mainpc = "accept" /\ client_fd # -1 /\ client_fd' = -1)
             => mainpc' = "accept" /\ UNCHANGED <<connvars, thrvars, storevars, refMap>>
          /\ (mainpc = "create" /\ mainpc' # "create" /\ pc'[client_fd] = "idle")
             => /\ mainpc' = "accept"
                /\ connst'[client_fd] = "closed"
                /\ closes'[client_fd] = 1
                /\ reads'[client_fd] = 0
                /\ writes'[client_fd] = 0
                /\ sent'[client_fd] = <<>>
                /\ UNCHANGED <<thrvars, storevars, refMap>>]_vars

\* a connection was closed by main without a handler, an accept failed after
\* that, and main is accepting while a handler holds the mutex
C10_Witness ==
    /\ mainpc = "accept"
    /\ client_fd = -1
    /\ \E c \in Conns : connst[c] = "closed" /\ reads[c] = 0 /\ writes[c] = 0 /\ closes[c] = 1
    /\ kv_mutex # 0

\* C11: when the allocation of a new record fails in a handler's SET, the
\* process keeps running (main stays in its accept loop, the other handlers
\* stay alive) and the handler does not end holding the mutex.
C11_AllocFailureConfined ==
    \A t \in Conns :
        pc[t] = "fault"
        => /\ mainpc \in {"accept", "create"}
           /\ \A u \in Conns : u # t => pc[u] # "gone"
           /\ kv_mutex # t

\* thread t is between pthread_mutex_lock and pthread_mutex_unlock
InCS(t) == pc[t] \in {"dispatch", "set", "get", "delete", "unlock"}

\* C12: at most one handler is between acquiring and releasing the mutex, and
\* it is the one the mutex records as its holder; every step that reads the
\* table (the lookup, the GET's copy) or changes it is a step of the holder.
C12_MutualExclusion ==
    /\ [](/\ \A t, u \in Conns : (InCS(t) /\ InCS(u)) => t = u
          /\ \A t \in Conns : InCS(t) <=> kv_mutex = t)
    /\ [][/\ \A t \in Conns :
                (pc[t] \in {"dispatch", "set", "get", "delete"} /\ pc'[t] # pc[t])
                => kv_mutex = t
          /\ kv_store' # kv_store
             => \E t \in Conns : kv_mutex = t /\ pc[t] \in {"set", "delete"} /\ pc'[t] = "unlock"]_vars

\* a GET is inside the critical section while another GET waits for the mutex
C12_Witness ==
    \E t, u \in Conns :
        /\ t # u
        /\ pc[t] = "get" /\ kv_mutex = t
        /\ pc[u] = "lock" /\ Branch(sc[u]) = "get"

\* C13: every path through the command dispatch (the three command branches,
\* with or without a record found, and the else branch) ends at
\* pthread_mutex_unlock with the mutex still held, the unlock releases it, and
\* a handler that is not between lock and unlock (waiting to read, writing,
\* closing, ended) does not hold the mutex.
C13_LockReleased ==
    /\ [](\A t \in Conns : ~InCS(t) => kv_mutex # t)
    /\ [][\A t \in Conns :
            /\ (/\ \/ pc[t] \in {"set", "get", "delete"}
                   \/ pc[t] = "dispatch" /\ Branch(sc[t]) = "error"
                /\ pc'[t] # pc[t])
               => pc'[t] = "unlock" /\ kv_mutex' = t
            /\ (pc[t] = "unlock" /\ pc'[t] # "unlock")
               => pc'[t] = "write" /\ kv_mutex = t /\ kv_mutex' = 0
            /\ (pc'[t] \in {"write", "close"} /\ pc'[t] # pc[t])
               => pc[t] \in {"unlock", "write"}]_vars

\* a handler of an invalid request is writing ERROR with the mutex free, after
\* a SET that updated a record and a DELETE that found none
C13_Witness ==
    \E t \in Conns :
        /\ pc[t] = "write"
        /\ response[t] = ERROR_STR
        /\ kv_mutex = 0
        /\ \E r \in lastMut : r.cmd = "set" /\ r.prev = "set"
        /\ \E r \in lastMut : r.cmd = "delete" /\ r.prev = "delete"

Advance(t) == HcDispatch(t) \/ HcSet(t) \/ HcGet(t) \/ HcDelete(t) \/ HcUnlock(t)

\* C15: a handler at its read or at its write does not hold the mutex, and
\* while it stays there every other handler can go on: one that waits for the
\* mutex can take it when it is free and otherwise its holder can take its
\* next step, and main can create the thread of an accepted connection and
\* accept a connection that a client opens.
C15_BlockedHoldsNoLock ==
    \A b \in Conns :
        pc[b] \in {"read", "write"}
        => /\ kv_mutex # b
           /\ \A u \in Conns \ {b} :
                 /\ (pc[u] = "lock" /\ kv_mutex = 0) => ENABLED HcLock(u)
                 /\ (pc[u] = "lock" /\ kv_mutex # 0)
                    => InCS(kv_mutex) /\ ENABLED Advance(kv_mutex)
                 /\ InCS(u) => ENABLED Advance(u)
                 /\ pc[u] = "close" => ENABLED HcClose(u)
           /\ mainpc = "create" => ENABLED MainCreateOk
           /\ (mainpc = "accept" /\ \E c \in 1..env.slots : connst[c] # "open")
              => ENABLED MainAcceptOk

\* one handler waits in read while another, that took the mutex and released
\* it, is at its write
C15_Witness ==
    \E b, u \in Conns :
        /\ b # u
        /\ pc[b] = "read"
        /\ pc[u] = "write"
        /\ Branch(sc[u]) = "set" /\ response[u] = OK_STR
        /\ kv_mutex = 0

\* C16: under fair scheduling and a fair mutex, a handler that has read its
\* request and waits for the mutex comes to its end with its response
\* written, its connection closed and the mutex not in its hands.
C16_HandlersComplete ==
    \A t \in Conns :
        (pc[t] = "lock")
        ~> (/\ pc[t] = "idle"
            /\ writes[t] = 1 /\ closes[t] = 1 /\ connst[t] = "closed"
            /\ kv_mutex # t)

\* a handler waits for the mutex while another, inside a SET, holds it
C16_Witness ==
    \E t, u \in Conns :
        /\ t # u
        /\ pc[t] = "lock"
        /\ pc[u] = "set" /\ kv_mutex = u

\* C17: no step taken while a GET handler holds the mutex, its acquiring and
\* its releasing step included, changes the table, and the GET computes the
\* value of the key's record, or NOT_FOUND when the key has none.
C17_GetReadOnly ==
    [][\A t \in Conns :
         /\ (Branch(sc[t]) = "get" /\ (kv_mutex = t \/ kv_mutex' = t))
            => kv_store' = kv_store /\ refMap' = refMap
         /\ GetStep(t)
            => /\ Absent(kv_store, sc[t].key) => response'[t] = NOT_FOUND_STR
               /\ \A e \in RecordsOf(kv_store, sc[t].key) : response'[t] = e.value]_vars

\* a GET handler has released the mutex with the value of its key, and the
\* table still holds that record
C17_Witness ==
    \E t \in Conns :
        /\ pc[t] = "write"
        /\ Branch(sc[t]) = "get"
        /\ kv_mutex # t
        /\ \E e \in kv_store : e.key = sc[t].key /\ e.value = response[t]

\* the responses the README's clients receive, in the order of NameScript
ExpectedResponses == <<OK_STR, HONG_STR, OK_STR, NOT_FOUND_STR, OK_STR>>
\* the mapping after the first i commands of NameScript
MapAfter(i) == IF i \in {1, 2} THEN {[key |-> NAME_STR, value |-> HONG_STR]} ELSE {}
\* the number of the running client's command in NameScript
ScriptPos == Len(NameScript) + 1 - Len(env.script)
\* thread t serves the running client, whose request was sent after the
\* response of the client before it was written
Serves(t) == env.phase = "wait" /\ fd[t] = env.conn

\* C18: when clients run one after another, each sending its request after
\* the response of the one before was written, a handler reads its request
\* and executes it on the table that holds the effect of all commands before
\* it, and SET name Hong, GET name, DELETE name, GET name, DELETE name are
\* answered OK, Hong, OK, NOT_FOUND, OK.
C18_RealTimeOrder ==
    [][\A t \in Conns :
         /\ (Serves(t) /\ pc[t] = "read" /\ pc'[t] = "lock")
            => AbstractMap(kv_store) = MapAfter(ScriptPos - 1)
         /\ (Serves(t) /\ (SetStep(t) \/ GetStep(t) \/ DeleteStep(t)))
            => /\ AbstractMap(kv_store) = MapAfter(ScriptPos - 1)
               /\ AbstractMap(kv_store') = MapAfter(ScriptPos)
         /\ (Serves(t) /\ WriteStep(t))
            => sent'[fd[t]] = <<ExpectedResponses[ScriptPos]>>]_vars

\* the last client has its response: the second DELETE found no record and
\* was answered OK while its handler has not yet closed the connection
C18_Witness ==
    /\ env.phase = "done"
    /\ kv_store = {}
    /\ \E t \in Conns :
          /\ pc[t] = "close"
          /\ Branch(sc[t]) = "delete" /\ entry[t] = NULL
          /\ sent[fd[t]] = <<OK_STR>>
          /\ LastMutOf(sc[t].key).prev = "delete"

\* C19: the response a GET computes is NOT_FOUND exactly when its lookup
\* found no record for the key, and it is never ERROR.
C19_GetDistinguishes ==
    \A t \in Conns :
        (Post(t) /\ Branch(sc[t]) = "get")
        => /\ response[t] = NOT_FOUND_STR <=> entry[t] = NULL
           /\ response[t] # ERROR_STR

\* thread t has copied its descriptor and has not ended
Running(t) == pc[t] \notin {"idle", "start"}

\* C20: a running handler works on the connection that was accepted when its
\* thread was created, whatever main's client_fd holds by then, and no two
\* running handlers work on the same connection; every read, write and close
\* of a connection is done by its own handler (or, the close, by main when
\* the thread could not be created); the descriptor copy is freed when the
\* handler returns or the creation fails, and never twice.
C20_OwnConnection ==
    /\ [](/\ \A t \in Conns : Running(t) => fd[t] = t /\ connst[t] = "open" /\ frees[t] = 0
          /\ \A t, u \in Conns : (Running(t) /\ Running(u) /\ fd[t] = fd[u]) => t = u
          /\ \A c \in Conns : frees[c] <= 1)
    /\ [][/\ \A c \in Conns :
               /\ (reads'[c] > reads[c] \/ writes'[c] > writes[c])
                  => Running(c) /\ fd[c] = c /\ pc'[c] # pc[c]
               /\ closes'[c] > closes[c]
                  => \/ Running(c) /\ fd[c] = c /\ pc'[c] = "idle"
                     \/ mainpc = "create" /\ client_fd = c /\ pc[c] = "idle"
               /\ frees'[c] > frees[c] => closes'[c] > closes[c]
          /\ \A t \in Conns : ReturnStep(t) => frees[t] = 0 /\ frees'[t] = 1
          /\ (mainpc = "create" /\ mainpc' = "accept" /\ pc'[client_fd] = "idle")
             => frees'[client_fd] = 1]_vars

\* two handlers are running, each on its own connection, after main went on
\* to an accept that failed and overwrote client_fd
C20_Witness ==
    \E t, u \in Conns :
        /\ t # u
        /\ Running(t) /\ Running(u)
        /\ fd[t] = t /\ fd[u] = u
        /\ pc[u] = "read"
        /\ client_fd = -1

====
